---- MODULE Spec2Model ----
(***************************************************************************)
(* Food Cost Calculator: the pure cost/weight arithmetic of calc.py and    *)
(* app.py (CalcSpec, RecipeSpec, UnitCostSpec, FrameSpec), the pricing of   *)
(* the Home page (PricingSpec), the license gate (LicenseSpec), and the     *)
(* session/persistence state machine of the app.py pages (Spec, which runs  *)
(* in demo mode: no license key configured).                               *)
(*                                                                         *)
(* Python floats are modelled as exact rationals <<n, d>> in lowest terms  *)
(* with d > 0; None is the value NoneVal; a raised exception is a value    *)
(* of kind "raise".                                                        *)
(***************************************************************************)
EXTENDS Integers, Sequences, FiniteSets, TLC

VARIABLES
    ingredients,       \* st.session_state.ingredients: name -> catalog entry
    densities,         \* st.session_state.densities: name -> kg/L
    batches,           \* st.session_state.batches: batch id -> batch
    recipes,           \* st.session_state.recipes: recipe name -> recipe
    batch_id_counter,  \* st.session_state.batch_id_counter
    new_batch_buffer,  \* st.session_state.new_batch_buffer
    disk,              \* data/<table>.json, one file per table
    page,              \* the sidebar "nav" selection
    batch_filter,      \* the sidebar "batch_filter" widget state
    op,                \* <<"delete_batch", n>> after a delete that pruned n batch-uses,
                       \* <<"reset", 0>> after "Reset all data"
    arg,               \* the argument handed to the function under call
    fn,                \* the function called last
    ret,               \* what it returned
    unlocked,          \* st.session_state.unlocked
    VALID_KEYS         \* the hashes of the license keys of APP_PASS

vars == <<ingredients, densities, batches, recipes, batch_id_counter,
          new_batch_buffer, disk, page, batch_filter, op, arg, fn, ret,
          unlocked, VALID_KEYS>>

uiVars == <<batches, recipes, batch_id_counter, new_batch_buffer, disk, page,
            batch_filter, op>>

callVars == <<arg, fn, ret>>

licVars == <<unlocked, VALID_KEYS>>

-----------------------------------------------------------------------------
(* Exact arithmetic standing for Python float arithmetic.                  *)

Abs(i) == IF i < 0 THEN -i ELSE i

RECURSIVE Gcd(_, _)
Gcd(a, b) == IF b = 0 THEN a ELSE Gcd(b, a % b)

Rat(n, d) ==
    LET s == IF d < 0 THEN -1 ELSE 1
        g == Gcd(Abs(n), Abs(d))
    IN  <<(s * n) \div g, (s * d) \div g>>

Zero == <<0, 1>>
Int2Rat(i) == <<i, 1>>

RAdd(a, b) == Rat(a[1] * b[2] + b[1] * a[2], a[2] * b[2])
RMul(a, b) == Rat(a[1] * b[1], a[2] * b[2])
RDiv(a, b) == Rat(a[1] * b[2], a[2] * b[1])
RLt(a, b) == a[1] * b[2] < b[1] * a[2]
RLe(a, b) == a[1] * b[2] <= b[1] * a[2]
RFloor(a) == a[1] \div a[2]
IMax(i, j) == IF i >= j THEN i ELSE j

\* 1e-9, the floor of a package quantity
EpsDen == 1000000000
Eps == <<1, EpsDen>>

\* max(q, 1e-9): q <= 1/EpsDen iff q[1] * EpsDen <= q[2]
MaxEps(q) == IF q[1] <= 0 \/ q[1] <= q[2] \div EpsDen THEN Eps ELSE q

-----------------------------------------------------------------------------
(* Python values: a float, None, or an exception that was raised.          *)

Num(r) == [kind |-> "num", val |-> r, exc |-> ""]
NoneVal == [kind |-> "none", val |-> Zero, exc |-> ""]
Raise(e) == [kind |-> "raise", val |-> Zero, exc |-> e]

\* a line item, and a catalog entry
Item(n, q, u) == [name |-> n, qty |-> q, unit |-> u]
Entry(u, q, p) == [unit |-> u, package_qty |-> q, package_price |-> p]

\* x or 0.0
OrZero(x) == IF x.kind = "none" \/ x.val = Zero THEN Zero ELSE x.val

\* dict.get(name)
Get(d, name) == IF name \in DOMAIN d THEN Num(d[name]) ELSE NoneVal

-----------------------------------------------------------------------------
(* calc.py                                                                 *)

\* unit_cost with a package quantity floored at 1
unit_cost_floor_one(name, ings) ==
    IF name \notin DOMAIN ings
    THEN Raise("KeyError")
    ELSE LET q == ings[name].package_qty
         IN  Num(RDiv(ings[name].package_price,
                      IF q[1] < q[2] THEN Int2Rat(1) ELSE q))

unit_cost(name, ings) ==
    IF name \notin DOMAIN ings
    THEN Raise("KeyError")
    ELSE Num(RDiv(ings[name].package_price, MaxEps(ings[name].package_qty)))

\* to_base that forgets the ml branch
to_base_no_ml(qty, unit) ==
    IF unit = "g" THEN RDiv(qty, Int2Rat(1000))
    ELSE qty

to_base(qty, unit) ==
    IF unit = "g" THEN RDiv(qty, Int2Rat(1000))
    ELSE IF unit = "ml" THEN RDiv(qty, Int2Rat(1000))
    ELSE qty

\* to_weight_kg that treats ml as L
to_weight_kg_ml_as_L(name, qty, unit, dens) ==
    IF unit = "kg" THEN qty
    ELSE IF unit = "g" THEN RDiv(qty, Int2Rat(1000))
    ELSE IF unit \in {"L", "ml"}
         THEN LET d == Get(dens, name)
              IN  IF d.kind = "none" \/ d.val = Zero THEN Zero ELSE RMul(d.val, qty)
    ELSE Zero

to_weight_kg(name, qty, unit, dens) ==
    IF unit = "kg" THEN qty
    ELSE IF unit = "g" THEN RDiv(qty, Int2Rat(1000))
    ELSE IF unit \in {"L", "ml"}
         THEN LET d == Get(dens, name)
              IN  IF d.kind = "none" \/ d.val = Zero
                  THEN Zero
                  ELSE IF unit = "L"
                       THEN RMul(d.val, qty)
                       ELSE RDiv(RMul(d.val, qty), Int2Rat(1000))
    ELSE Zero

\* the loop of batch_total_cost over the items, from the running total
RECURSIVE CostLoop(_, _, _)
CostLoop(items, ings, total) ==
    IF items = <<>> THEN total
    ELSE LET it == Head(items)
         IN  IF it.name \notin DOMAIN ings
             THEN CostLoop(Tail(items), ings, total)
             ELSE CostLoop(Tail(items), ings,
                           RAdd(total, RMul(unit_cost(it.name, ings).val,
                                            to_base(it.qty, it.unit))))

batch_total_cost(batch, ings) == Num(CostLoop(batch.items, ings, Zero))

\* the loop of batch_total_weight_kg: <<w, unknown>>
RECURSIVE WeightLoop(_, _, _)
WeightLoop(items, dens, acc) ==
    IF items = <<>> THEN acc
    ELSE LET it == Head(items)
             wk == to_weight_kg(it.name, it.qty, it.unit, dens)
             unknown == IF it.unit \in {"L", "ml"} /\ wk = Zero
                        THEN acc[2] + 1 ELSE acc[2]
         IN  WeightLoop(Tail(items), dens, <<RAdd(acc[1], wk), unknown>>)

batch_total_weight_kg(batch, dens) == WeightLoop(batch.items, dens, <<Zero, 0>>)

-----------------------------------------------------------------------------
(* app.py: yield and cost per portion                                      *)

\* batch_portions_yield without the clamp at 0
batch_portions_yield_unclamped(batch, dens) ==
    LET pw == OrZero(batch.portion_weight_g)
    IN  IF RLe(pw, Zero) THEN 0
        ELSE LET tot_w == batch_total_weight_kg(batch, dens)[1]
             IN  RFloor(RDiv(RMul(tot_w, Int2Rat(1000)), pw))

batch_portions_yield(batch, dens) ==
    LET pw == OrZero(batch.portion_weight_g)
    IN  IF RLe(pw, Zero) THEN 0
        ELSE LET tot_w == batch_total_weight_kg(batch, dens)[1]
             IN  IMax(RFloor(RDiv(RMul(tot_w, Int2Rat(1000)), pw)), 0)

\* batch_cost_per_portion that reports a zero yield as a cost of 0
batch_cost_per_portion_zero(batch, ings, dens) ==
    LET total == batch_total_cost(batch, ings)
        portions == batch_portions_yield(batch, dens)
    IN  IF portions <= 0 THEN Num(Zero)
        ELSE Num(RDiv(total.val, Int2Rat(portions)))

batch_cost_per_portion(batch, ings, dens) ==
    LET total == batch_total_cost(batch, ings)
    IN  IF total.kind = "raise" /\ total.exc = "ValueError" THEN NoneVal
        ELSE IF total.kind = "raise" THEN total
        ELSE LET portions == batch_portions_yield(batch, dens)
             IN  IF portions <= 0 THEN NoneVal
                 ELSE Num(RDiv(total.val, Int2Rat(portions)))

\* Batch Summary of the Batches page: the displayed total cost, and cost / portion
BatchSummary(batch, ings, dens) ==
    LET t == batch_total_cost(batch, ings)
    IN  [total_cost |-> IF t.kind = "raise" /\ t.exc = "ValueError" THEN Num(Zero) ELSE t,
         cpp |-> batch_cost_per_portion(batch, ings, dens)]

\* the loop of toppings_cost_per_portion over recipe["items"]
RECURSIVE ToppingsLoop(_, _, _)
ToppingsLoop(items, ings, total) ==
    IF items = <<>> THEN total
    ELSE LET it == Head(items)
         IN  IF it.name \notin DOMAIN ings
             THEN ToppingsLoop(Tail(items), ings, total)
             ELSE ToppingsLoop(Tail(items), ings,
                               RAdd(total, RMul(unit_cost(it.name, ings).val,
                                                to_base(it.qty, it.unit))))

\* toppings_cost_per_portion that returns the total of the whole recipe
toppings_cost_per_portion_undivided(recipe, ings) ==
    Num(ToppingsLoop(recipe.items, ings, Zero))

toppings_cost_per_portion(recipe, ings) ==
    Num(RDiv(ToppingsLoop(recipe.items, ings, Zero),
             Int2Rat(IMax(recipe.portions, 1))))

\* the loop of recipe_cost_per_pizza over r["batch_uses"], from the running bcost
RECURSIVE BatchUsesLoop(_, _, _, _, _)
BatchUsesLoop(uses, bs, ings, dens, bcost) ==
    IF uses = <<>> THEN bcost
    ELSE LET bu == Head(uses)
         IN  IF bu.batch_id \notin DOMAIN bs
             THEN BatchUsesLoop(Tail(uses), bs, ings, dens, bcost)
             ELSE LET cpp == batch_cost_per_portion(bs[bu.batch_id], ings, dens)
                  IN  IF cpp.kind = "none"
                      THEN BatchUsesLoop(Tail(uses), bs, ings, dens, bcost)
                      ELSE BatchUsesLoop(Tail(uses), bs, ings, dens,
                                         RAdd(bcost, RMul(cpp.val, bu.portions)))

\* recipe_cost_per_pizza that charges one portion of every batch used
recipe_cost_per_pizza_one_portion(recipe_name, rs, bs, ings, dens) ==
    IF recipe_name \notin DOMAIN rs THEN Raise("KeyError")
    ELSE LET r == rs[recipe_name]
             ones == [i \in DOMAIN r.batch_uses |->
                         [r.batch_uses[i] EXCEPT !.portions = Int2Rat(1)]]
         IN  Num(RAdd(BatchUsesLoop(ones, bs, ings, dens, Zero),
                      toppings_cost_per_portion(r, ings).val))

recipe_cost_per_pizza(recipe_name, rs, bs, ings, dens) ==
    IF recipe_name \notin DOMAIN rs THEN Raise("KeyError")
    ELSE LET r == rs[recipe_name]
         IN  Num(RAdd(BatchUsesLoop(r.batch_uses, bs, ings, dens, Zero),
                      toppings_cost_per_portion(r, ings).val))

\* a ceil that rounds down
ceil_down(a) == a[1] \div a[2]

\* math.ceil
ceil(a) == -((-a[1]) \div a[2])

\* Home: the figures computed from the widgets and the cost per portion of the
\* selected recipe; target_pct is the slider value, target_fc = target_pct / 100
HomePricing(cpp, tax_pct, target_pct, step, sell_gross) ==
    LET target_fc == RDiv(Int2Rat(target_pct), Int2Rat(100))
        tax_factor == RAdd(Int2Rat(1), RDiv(tax_pct, Int2Rat(100)))
        sell_net == IF RLt(Zero, sell_gross) THEN RDiv(sell_gross, tax_factor) ELSE Zero
        current_fc == IF RLt(Zero, sell_net) THEN RDiv(cpp, sell_net) ELSE Zero
        rec_net == RDiv(cpp, MaxEps(target_fc))
        rec_gross == RMul(Int2Rat(ceil(RDiv(RMul(rec_net, tax_factor), step))), step)
        margin_now == RAdd(sell_net, RMul(Int2Rat(-1), cpp))
    IN  [cpp |-> cpp, sell_net |-> sell_net, current_fc |-> current_fc,
         rec_net |-> rec_net, rec_gross |-> rec_gross, margin_now |-> margin_now]

-----------------------------------------------------------------------------
(* app.py: persistence and session initialisation                          *)

Put(d, k, v) == (k :> v) @@ d
Remove(d, k) == [x \in DOMAIN d \ {k} |-> d[x]]

\* load_state for a file that exists: the stored table over the defaults.
\* json.dump then json.load gives back the table as it was: string keys,
\* floats, strings, lists and None all survive the round trip.
load_state(file, default) == file @@ default

\* save_state that writes nothing
save_state_nothing(d, name, data) == d

save_state(d, name, data) == [d EXCEPT ![name] = data]

default_ing ==
    ("Flour 00" :> Entry("kg", Int2Rat(25), Rat(299, 10)))
    @@ ("Water" :> Entry("L", Int2Rat(10), Rat(3, 2)))
    @@ ("Salt" :> Entry("kg", Int2Rat(1), Rat(1, 2)))
    @@ ("Yeast" :> Entry("kg", Int2Rat(1), Int2Rat(8)))
    @@ ("Mozzarella" :> Entry("kg", Int2Rat(1), Rat(13, 2)))
    @@ ("Tomato" :> Entry("kg", Int2Rat(1), Rat(7, 5)))
    @@ ("Oil EVO" :> Entry("L", Int2Rat(1), Int2Rat(7)))

default_dens ==
    ("Water" :> Int2Rat(1)) @@ ("Oil EVO" :> Rat(91, 100))
    @@ ("Milk" :> Rat(103, 100)) @@ ("Cream" :> Rat(99, 100))

DefaultBuffer ==
    [name |-> "", category |-> "", portion_weight_g |-> Num(Int2Rat(280)), items |-> <<>>]

sections == {"Food Cost (Home)", "Menu (soon)", "Recipes", "Batches", "Ingredients", "Settings"}

\* str.strip(), on the names and keys of the inputs below
strip(t) ==
    CASE t = "dough " -> "dough"
      [] t = " foo " -> "foo"
      [] t = "  " -> ""
      [] OTHER -> t

\* str.upper(), on the keys of the inputs below
upper(t) ==
    CASE t = "foo" -> "FOO"
      [] t = " foo " -> " FOO "
      [] t = "bar" -> "BAR"
      [] t = "Bar" -> "BAR"
      [] t = "baz" -> "BAZ"
      [] OTHER -> t

\* the SHA-256 hex digest, taken as free of collisions
_hash_key(key) == <<"sha256", key>>

\* re.split(r"[\s,]+", APP_PASS), on the values of APP_PASS below
split(s) ==
    CASE s = "" -> <<"">>
      [] s = " , " -> <<"", "">>
      [] s = "foo" -> <<"foo">>
      [] s = "foo, Bar" -> <<"foo", "Bar">>
      [] OTHER -> <<s>>

\* the set VALID_KEYS built from the environment variable APP_PASS
valid_keys(app_pass) ==
    LET ks == split(app_pass)
    IN  { _hash_key(upper(strip(ks[i]))) : i \in {j \in DOMAIN ks : strip(ks[j]) # ""} }

\* check_key that accepts every key that is not blank
check_key_nonblank(k, keys) == strip(k) # ""

check_key(k, keys) ==
    LET stripped == strip(k)
    IN  IF stripped = "" THEN FALSE
        ELSE _hash_key(upper(stripped)) \in keys

\* f"b{n}"
BatchId(n) == <<"b", n>>
\* what the "Choose batch" selectbox gives when it has no option
NoneId == <<"None", 0>>

_new_batch_id == BatchId(batch_id_counter)

\* batch_filter.lower() in name.lower(), for the names and filters of the inputs
\* below, none of which is a proper part of another
Contains(name, f) == f = "" \/ f = name

\* the batches offered by a selectbox under a filter
Options(bs, f) == {bid \in DOMAIN bs : Contains(bs[bid].name, f)}

\* a delete that leaves the recipes alone
PruneBatchUses_none(rs, bid) == rs

\* Delete this batch: the batch-uses of a recipe table without those of bid
PruneBatchUses(rs, bid) ==
    [rn \in DOMAIN rs |->
        [rs[rn] EXCEPT !.batch_uses = SelectSeq(@, LAMBDA bu : bu.batch_id # bid)]]

-----------------------------------------------------------------------------
(* Spec: the pages of app.py. An action is one click together with the     *)
(* script run(s) it triggers, `st.rerun()` included.                       *)

MaxCounter == 1
MaxUses == 1
MaxUiItems == 1

BatchNameInputs == {"dough", "sauce"}
BufferNameInputs == {"", "dough "}
FilterInputs == {"", "dough", "zzz"}
RecipeNameInputs == {"Margherita"}
NewIngredientInputs == {"Basil"}
UiItemNames == {"Basil"}
UiUnits == {"ml"}

Init ==
    /\ ingredients = default_ing
    /\ densities = default_dens
    /\ batches = <<>>
    /\ recipes = <<>>
    /\ batch_id_counter = 1
    /\ new_batch_buffer = DefaultBuffer
    /\ disk = [ingredients |-> default_ing, densities |-> default_dens,
               batches |-> <<>>, recipes |-> <<>>]
    /\ page = "Food Cost (Home)"
    /\ batch_filter = ""
    /\ op = <<"other", 0>>
    /\ arg = DefaultBuffer
    /\ fn = "none"
    /\ ret = NoneVal
    /\ unlocked = TRUE
    /\ VALID_KEYS = {}

\* what a script run on page p writes regardless of any click (lines 425, 631, 665)
PageRunSave(d, p, bs, f) ==
    IF p = "Batches" /\ Options(bs, f) # {} THEN save_state(d, "batches", bs)
    ELSE IF p = "Ingredients" THEN save_state(d, "ingredients", ingredients)
    ELSE IF p = "Settings" THEN save_state(d, "densities", densities)
    ELSE d

\* The sidebar selectbox. The state of a keyed widget lives while the widget is
\* rendered: the "batch_filter" text input is rendered on the Batches page only,
\* so its key is gone from the session state in every later run of another page
\* and is "" again when the Batches page is entered.
Navigate(p) ==
    /\ p # page
    /\ page' = p
    /\ batch_filter' = ""
    /\ disk' = PageRunSave(disk, p, batches, "")
    /\ op' = <<"other", 0>>
    /\ UNCHANGED <<ingredients, densities, batches, recipes, batch_id_counter,
                   new_batch_buffer, callVars, licVars>>

\* typing in the "Filter batches" text input of the Batches page
SetBatchFilter(f) ==
    /\ page = "Batches"
    /\ f # batch_filter
    /\ batch_filter' = f
    /\ disk' = PageRunSave(disk, page, batches, f)
    /\ op' = <<"other", 0>>
    /\ UNCHANGED <<ingredients, densities, batches, recipes, batch_id_counter,
                   new_batch_buffer, page, callVars, licVars>>

\* a new browser session: the session state is empty and filled from the files
SessionRestart ==
    /\ ingredients' = load_state(disk.ingredients, default_ing)
    /\ densities' = load_state(disk.densities, default_dens)
    /\ batches' = load_state(disk.batches, <<>>)
    /\ recipes' = load_state(disk.recipes, <<>>)
    /\ batch_id_counter' = 1
    /\ new_batch_buffer' = DefaultBuffer
    /\ page' = "Food Cost (Home)"
    /\ batch_filter' = ""
    /\ op' = <<"other", 0>>
    /\ unlocked' = (VALID_KEYS = {})
    /\ UNCHANGED <<disk, callVars, VALID_KEYS>>

\* Settings: "Reset all data" deletes four keys; the rerun loads them again
ResetAllData ==
    /\ page = "Settings"
    /\ ingredients' = load_state(disk.ingredients, default_ing)
    /\ recipes' = load_state(disk.recipes, <<>>)
    /\ batches' = load_state(disk.batches, <<>>)
    /\ new_batch_buffer' = DefaultBuffer
    /\ disk' = save_state(disk, "densities", densities)
    /\ op' = <<"reset", 0>>
    /\ UNCHANGED <<densities, batch_id_counter, page, batch_filter, callVars, licVars>>

\* Recipes: "Create recipe"
CreateRecipe(new_name, new_portions) ==
    /\ page = "Recipes"
    /\ new_name # ""
    /\ new_name \notin DOMAIN recipes
    /\ recipes' = Put(recipes, new_name,
                      [portions |-> new_portions, batch_uses |-> <<>>, items |-> <<>>])
    /\ disk' = save_state(disk, "recipes", recipes')
    /\ op' = <<"other", 0>>
    /\ UNCHANGED <<ingredients, densities, batches, batch_id_counter,
                   new_batch_buffer, page, batch_filter, callVars, licVars>>

\* Recipes: "Add batch to recipe"
AttachBatch(rsel, pp) ==
    /\ page = "Recipes"
    /\ rsel \in DOMAIN recipes
    /\ batches # <<>>
    /\ Len(recipes[rsel].batch_uses) < MaxUses
    /\ LET options == Options(batches, batch_filter)
       IN  \E bid_to_add \in (IF options = {} THEN {NoneId} ELSE options) :
              /\ recipes' = [recipes EXCEPT ![rsel].batch_uses =
                                Append(@, [batch_id |-> bid_to_add, portions |-> pp])]
              /\ disk' = save_state(disk, "recipes", recipes')
    /\ op' = <<"other", 0>>
    /\ UNCHANGED <<ingredients, densities, batches, batch_id_counter,
                   new_batch_buffer, page, batch_filter, callVars, licVars>>

\* Recipes: "Add item" of the extra-ingredient form
AddRecipeItem(rsel, ingr, qty, unit) ==
    /\ page = "Recipes"
    /\ rsel \in DOMAIN recipes
    /\ ingr \in DOMAIN ingredients
    /\ Len(recipes[rsel].items) < MaxUiItems
    /\ recipes' = [recipes EXCEPT ![rsel].items = Append(@, Item(ingr, qty, unit))]
    /\ disk' = save_state(disk, "recipes", recipes')
    /\ op' = <<"other", 0>>
    /\ UNCHANGED <<ingredients, densities, batches, batch_id_counter,
                   new_batch_buffer, page, batch_filter, callVars, licVars>>

\* Recipes: "Remove last item"
RemoveLastRecipeItem(rsel) ==
    /\ page = "Recipes"
    /\ rsel \in DOMAIN recipes
    /\ recipes[rsel].items # <<>>
    /\ recipes' = [recipes EXCEPT ![rsel].items = SubSeq(@, 1, Len(@) - 1)]
    /\ disk' = save_state(disk, "recipes", recipes')
    /\ op' = <<"other", 0>>
    /\ UNCHANGED <<ingredients, densities, batches, batch_id_counter,
                   new_batch_buffer, page, batch_filter, callVars, licVars>>

\* Recipes: "Delete recipe"
DeleteRecipe(rsel) ==
    /\ page = "Recipes"
    /\ rsel \in DOMAIN recipes
    /\ recipes' = Remove(recipes, rsel)
    /\ disk' = save_state(disk, "recipes", recipes')
    /\ op' = <<"other", 0>>
    /\ UNCHANGED <<ingredients, densities, batches, batch_id_counter,
                   new_batch_buffer, page, batch_filter, callVars, licVars>>

\* the Batches page raises at `batches[bid_sel]` when the filter leaves no option
BatchesPageRuns == batches = <<>> \/ Options(batches, batch_filter) # {}

\* Batches, edit tab: the "Batch name" text input of the selected batch
EditBatchBasic(bid_sel, nm) ==
    /\ page = "Batches"
    /\ bid_sel \in Options(batches, batch_filter)
    /\ nm # batches[bid_sel].name
    /\ batches' = [batches EXCEPT ![bid_sel].name = nm]
    /\ disk' = save_state(disk, "batches", batches')
    /\ op' = <<"other", 0>>
    /\ UNCHANGED <<ingredients, densities, recipes, batch_id_counter,
                   new_batch_buffer, page, batch_filter, callVars, licVars>>

\* ingredient_inline_creator, "Save to catalog"
\* ingredient_inline_creator that hands back any name typed
ingredient_inline_creator_any(name, ings) == strip(name)

\* what ingredient_inline_creator returns when "Save to catalog" is not clicked:
\* the stripped name if it is in the catalog, and None, here "", otherwise
ingredient_inline_creator(name, ings) ==
    LET stripped == strip(name)
    IN  IF stripped = "" THEN ""
        ELSE IF stripped \in DOMAIN ings THEN stripped
        ELSE ""

InlineSaveToCatalog(name, base_unit, pack_qty, pack_price, dens) ==
    /\ page = "Batches"
    /\ BatchesPageRuns
    /\ name # ""
    /\ name \notin DOMAIN ingredients
    /\ ingredients' = Put(ingredients, name, Entry(base_unit, pack_qty, pack_price))
    /\ densities' = IF base_unit = "L" THEN Put(densities, name, dens) ELSE densities
    /\ disk' = LET d1 == save_state(disk, "ingredients", ingredients')
               IN  IF base_unit = "L" THEN save_state(d1, "densities", densities') ELSE d1
    /\ op' = <<"other", 0>>
    /\ UNCHANGED <<batches, recipes, batch_id_counter, new_batch_buffer, page,
                   batch_filter, callVars, licVars>>

\* Batches, edit tab: "Add item"
AddBatchItem(bid_sel, name, qty, unit) ==
    /\ page = "Batches"
    /\ bid_sel \in Options(batches, batch_filter)
    /\ ingredient_inline_creator(name, ingredients) # ""
    /\ Len(batches[bid_sel].items) < MaxUiItems
    /\ batches' = [batches EXCEPT ![bid_sel].items =
                      Append(@, Item(ingredient_inline_creator(name, ingredients), qty, unit))]
    /\ disk' = save_state(disk, "batches", batches')
    /\ op' = <<"other", 0>>
    /\ UNCHANGED <<ingredients, densities, recipes, batch_id_counter,
                   new_batch_buffer, page, batch_filter, callVars, licVars>>

\* Batches, edit tab: "Remove last item"
RemoveLastBatchItem(bid_sel) ==
    /\ page = "Batches"
    /\ bid_sel \in Options(batches, batch_filter)
    /\ batches[bid_sel].items # <<>>
    /\ batches' = [batches EXCEPT ![bid_sel].items = SubSeq(@, 1, Len(@) - 1)]
    /\ disk' = save_state(disk, "batches", batches')
    /\ op' = <<"other", 0>>
    /\ UNCHANGED <<ingredients, densities, recipes, batch_id_counter,
                   new_batch_buffer, page, batch_filter, callVars, licVars>>

\* the batch-uses of bid in a recipe table
UsesOf(rs, bid) ==
    {<<rn, i>> \in (DOMAIN rs) \X (1..(MaxUses + 1)) :
        i <= Len(rs[rn].batch_uses) /\ rs[rn].batch_uses[i].batch_id = bid}

\* Batches, edit tab: "Delete this batch"
DeleteBatch(bid_sel) ==
    /\ page = "Batches"
    /\ bid_sel \in Options(batches, batch_filter)
    /\ recipes' = PruneBatchUses(recipes, bid_sel)
    /\ batches' = Remove(batches, bid_sel)
    /\ disk' = save_state(save_state(disk, "recipes", recipes'), "batches", batches')
    /\ op' = <<"delete_batch", Cardinality(UsesOf(recipes, bid_sel))>>
    /\ UNCHANGED <<ingredients, densities, batch_id_counter, new_batch_buffer,
                   page, batch_filter, callVars, licVars>>

\* Batches, new tab: the "Batch name" text input of the buffer
EditBuffer(nm) ==
    /\ page = "Batches"
    /\ BatchesPageRuns
    /\ nm # new_batch_buffer.name
    /\ new_batch_buffer' = [new_batch_buffer EXCEPT !.name = nm]
    /\ disk' = PageRunSave(disk, page, batches, batch_filter)
    /\ op' = <<"other", 0>>
    /\ UNCHANGED <<ingredients, densities, batches, recipes, batch_id_counter,
                   page, batch_filter, callVars, licVars>>

\* Batches, new tab: "Add item"
AddBufferItem(name, qty, unit) ==
    /\ page = "Batches"
    /\ BatchesPageRuns
    /\ ingredient_inline_creator(name, ingredients) # ""
    /\ Len(new_batch_buffer.items) < MaxUiItems
    /\ new_batch_buffer' = [new_batch_buffer EXCEPT !.items =
                               Append(@, Item(ingredient_inline_creator(name, ingredients), qty, unit))]
    /\ disk' = PageRunSave(disk, page, batches, batch_filter)
    /\ op' = <<"other", 0>>
    /\ UNCHANGED <<ingredients, densities, batches, recipes, batch_id_counter,
                   page, batch_filter, callVars, licVars>>

\* Batches, new tab: "Remove last item"
RemoveLastBufferItem ==
    /\ page = "Batches"
    /\ BatchesPageRuns
    /\ new_batch_buffer.items # <<>>
    /\ new_batch_buffer' = [new_batch_buffer EXCEPT !.items = SubSeq(@, 1, Len(@) - 1)]
    /\ disk' = PageRunSave(disk, page, batches, batch_filter)
    /\ op' = <<"other", 0>>
    /\ UNCHANGED <<ingredients, densities, batches, recipes, batch_id_counter,
                   page, batch_filter, callVars, licVars>>

\* Batches, new tab: "Create batch"
CreateBatch ==
    /\ page = "Batches"
    /\ BatchesPageRuns
    /\ batch_id_counter <= MaxCounter
    /\ new_batch_buffer.name # ""
    /\ RLt(Zero, OrZero(new_batch_buffer.portion_weight_g))
    /\ LET bid == _new_batch_id
       IN  /\ batches' = Put(batches, bid,
                              [name |-> strip(new_batch_buffer.name),
                               category |-> strip(new_batch_buffer.category),
                               portion_weight_g |-> new_batch_buffer.portion_weight_g,
                               items |-> new_batch_buffer.items])
           /\ op' = <<"other", 0>>
    /\ batch_id_counter' = batch_id_counter + 1
    /\ disk' = save_state(disk, "batches", batches')
    /\ new_batch_buffer' = DefaultBuffer
    /\ UNCHANGED <<ingredients, densities, recipes, page, batch_filter, callVars, licVars>>

\* Ingredients: "Add ingredient"
AddIngredient(new_in) ==
    /\ page = "Ingredients"
    /\ new_in # ""
    /\ new_in \notin DOMAIN ingredients
    /\ ingredients' = Put(ingredients, new_in, Entry("kg", Int2Rat(1), Int2Rat(1)))
    /\ disk' = save_state(disk, "ingredients", ingredients')
    /\ op' = <<"other", 0>>
    /\ UNCHANGED <<densities, batches, recipes, batch_id_counter, new_batch_buffer,
                   page, batch_filter, callVars, licVars>>

\* Settings: "Add/Update density"
AddDensity(new_dens_name, new_dens_val) ==
    /\ page = "Settings"
    /\ new_dens_name # ""
    /\ Get(densities, new_dens_name) # Num(new_dens_val)
    /\ densities' = Put(densities, new_dens_name, new_dens_val)
    /\ disk' = save_state(disk, "densities", densities')
    /\ op' = <<"other", 0>>
    /\ UNCHANGED <<ingredients, batches, recipes, batch_id_counter, new_batch_buffer,
                   page, batch_filter, callVars, licVars>>

Half == Rat(1, 2)

Next ==
    \/ \E p \in sections : Navigate(p)
    \/ \E f \in FilterInputs : SetBatchFilter(f)
    \/ SessionRestart
    \/ ResetAllData
    \/ \E n \in RecipeNameInputs : CreateRecipe(n, 1)
    \/ \E r \in RecipeNameInputs : AttachBatch(r, Int2Rat(1))
    \/ \E r \in RecipeNameInputs, n \in UiItemNames, u \in UiUnits : AddRecipeItem(r, n, Half, u)
    \/ \E r \in RecipeNameInputs : RemoveLastRecipeItem(r)
    \/ \E r \in RecipeNameInputs : DeleteRecipe(r)
    \/ \E b \in DOMAIN batches, nm \in BatchNameInputs : EditBatchBasic(b, nm)
    \/ \E n \in NewIngredientInputs :   \* with the defaults of its widgets
          InlineSaveToCatalog(n, "kg", Int2Rat(1), Int2Rat(1), Int2Rat(1))
    \/ \E b \in DOMAIN batches, n \in UiItemNames, u \in UiUnits : AddBatchItem(b, n, Half, u)
    \/ \E b \in DOMAIN batches : RemoveLastBatchItem(b)
    \/ \E b \in DOMAIN batches : DeleteBatch(b)
    \/ \E nm \in BufferNameInputs : EditBuffer(nm)
    \/ \E n \in UiItemNames, u \in UiUnits : AddBufferItem(n, Half, u)
    \/ RemoveLastBufferItem
    \/ CreateBatch
    \/ \E n \in NewIngredientInputs : AddIngredient(n)
    \/ AddDensity("Water", Half)

Spec == Init /\ [][Next]_vars

-----------------------------------------------------------------------------
(* Inputs of the pure functions.                                           *)

MaxItems == 2

\* line items; "pz" is a unit outside kg, g, L, ml
ItemInputs ==
    { Item("Flour", Int2Rat(1), "kg"),
      Item("Flour", Int2Rat(-2), "kg"),
      Item("Flour", Int2Rat(3), "pz"),
      Item("Water", Int2Rat(500), "g"),
      Item("Water", Int2Rat(500), "ml"),
      Item("Water", Int2Rat(0), "ml"),
      Item("Water", Int2Rat(2), "L"),
      Item("Oil", Int2Rat(100), "ml"),
      Item("Oil", Int2Rat(1), "L"),
      Item("Salt", Int2Rat(1), "kg") }

RECURSIVE SeqsUpTo(_, _)
SeqsUpTo(S, n) ==
    IF n = 0 THEN {<<>>}
    ELSE LET shorter == SeqsUpTo(S, n - 1)
         IN  shorter \cup {Append(s, x) : s \in shorter, x \in S}

\* the catalogs of tests/test_calc.py (neither Salt nor Oil) and of app.py
CatalogInputs ==
    { ("Flour" :> Entry("kg", Int2Rat(1), Int2Rat(2)))
        @@ ("Water" :> Entry("kg", Int2Rat(1), Int2Rat(1))),
      ("Flour" :> Entry("kg", Int2Rat(25), Rat(299, 10)))
        @@ ("Water" :> Entry("L", Int2Rat(10), Rat(3, 2)))
        @@ ("Salt" :> Entry("kg", Int2Rat(1), Rat(1, 2)))
        @@ ("Oil" :> Entry("L", Int2Rat(1), Int2Rat(7))) }

\* density tables: of the test, with Oil, and with a zero entry
DensityInputs ==
    { ("Water" :> Int2Rat(1)),
      ("Water" :> Int2Rat(1)) @@ ("Oil" :> Rat(91, 100)),
      ("Water" :> Zero) @@ ("Oil" :> Rat(91, 100)) }

\* portion_weight_g: missing, zero, negative, positive
PortionWeightInputs ==
    { NoneVal, Num(Zero), Num(Int2Rat(-100)), Num(Int2Rat(250)),
      Num(Int2Rat(1000)) }

BatchInputs ==
    { [name |-> "dough", category |-> "", portion_weight_g |-> pw, items |-> its] :
        pw \in PortionWeightInputs, its \in SeqsUpTo(ItemInputs, MaxItems) }

-----------------------------------------------------------------------------
(* CalcSpec: the pure functions applied to inputs drawn from the sets above *)

\* the session tables, unused by the functions under call
IdleSession ==
    /\ batches = <<>>
    /\ recipes = <<>>
    /\ batch_id_counter = 1
    /\ new_batch_buffer = <<>>
    /\ disk = <<>>
    /\ page = "Food Cost (Home)"
    /\ batch_filter = ""
    /\ op = "none"
    /\ unlocked = TRUE
    /\ VALID_KEYS = {}

CalcInit ==
    /\ ingredients \in CatalogInputs
    /\ densities \in DensityInputs
    /\ arg \in BatchInputs
    /\ fn = "none"
    /\ ret = NoneVal
    /\ IdleSession

Call_batch_total_cost ==
    /\ fn' = "batch_total_cost"
    /\ ret' = batch_total_cost(arg, ingredients)
    /\ UNCHANGED <<ingredients, densities, arg, uiVars, licVars>>

Call_batch_total_weight_kg ==
    /\ fn' = "batch_total_weight_kg"
    /\ ret' = batch_total_weight_kg(arg, densities)
    /\ UNCHANGED <<ingredients, densities, arg, uiVars, licVars>>

Call_batch_portions_yield ==
    /\ fn' = "batch_portions_yield"
    /\ ret' = batch_portions_yield(arg, densities)
    /\ UNCHANGED <<ingredients, densities, arg, uiVars, licVars>>

Call_batch_cost_per_portion ==
    /\ fn' = "batch_cost_per_portion"
    /\ ret' = batch_cost_per_portion(arg, ingredients, densities)
    /\ UNCHANGED <<ingredients, densities, arg, uiVars, licVars>>

Call_BatchSummary ==
    /\ fn' = "BatchSummary"
    /\ ret' = BatchSummary(arg, ingredients, densities)
    /\ UNCHANGED <<ingredients, densities, arg, uiVars, licVars>>

CalcNext ==
    \/ Call_batch_total_cost
    \/ Call_batch_total_weight_kg
    \/ Call_batch_portions_yield
    \/ Call_batch_cost_per_portion
    \/ Call_BatchSummary

CalcSpec == CalcInit /\ [][CalcNext]_vars

-----------------------------------------------------------------------------
(* Claims about the pure functions (checked under CalcSpec).               *)

Indices(items) == 1..Len(items)

HasMissing(batch, ings) ==
    \E i \in Indices(batch.items) : batch.items[i].name \notin DOMAIN ings

StandardUnits(batch) ==
    \A i \in Indices(batch.items) : batch.items[i].unit \in {"kg", "g", "L", "ml"}

\* sum of f[i] over i in 1..n, f a sequence of rationals
RECURSIVE RSum(_, _)
RSum(f, n) == IF n = 0 THEN Zero ELSE RAdd(RSum(f, n - 1), f[n])

Thousandth == Rat(1, 1000)

\* C1: batch_total_cost fails with a ValueError whenever some line item names an
\* ingredient absent from the catalog; it never returns a number for such a batch.
C1_MissingIngredientRaises ==
    (fn = "batch_total_cost" /\ HasMissing(arg, ingredients))
        => (ret.kind = "raise" /\ ret.exc = "ValueError")

\* the cost of one line as the claim states it: unit cost times the quantity,
\* the quantity in thousandths for g and ml
LineCost(it, ings) ==
    RMul(unit_cost(it.name, ings).val,
         IF it.unit \in {"g", "ml"} THEN RMul(it.qty, Thousandth) ELSE it.qty)

\* C2: for a batch whose items all name catalog ingredients, batch_total_cost
\* returns the sum over the items of unit cost times base quantity (g and ml
\* divided by 1000, kg and L unchanged); an empty item list gives 0.
C2_TotalCostIsSum ==
    (fn = "batch_total_cost" /\ ~HasMissing(arg, ingredients) /\ StandardUnits(arg))
        => /\ ret.kind = "num"
           /\ ret.val = RSum([i \in Indices(arg.items) |-> LineCost(arg.items[i], ingredients)],
                             Len(arg.items))
           /\ (arg.items = <<>> => ret.val = Zero)

\* Flour 1 kg at 2/kg and Water 500 g at 1/kg cost 2.5
C2_Witness ==
    /\ fn = "batch_total_cost"
    /\ arg.items = <<Item("Flour", Int2Rat(1), "kg"), Item("Water", Int2Rat(500), "g")>>
    /\ ingredients["Flour"].package_price = Int2Rat(2)
    /\ ret = Num(Rat(5, 2))

HasDensity(name, dens) == name \in DOMAIN dens /\ dens[name] # Zero

\* the weight of one line as the claim states it
LineWeight(it, dens) ==
    CASE it.unit = "kg" -> it.qty
      [] it.unit = "g" -> RMul(it.qty, Thousandth)
      [] it.unit = "L" /\ HasDensity(it.name, dens) -> RMul(it.qty, dens[it.name])
      [] it.unit = "ml" /\ HasDensity(it.name, dens) ->
            RMul(RMul(it.qty, dens[it.name]), Thousandth)
      [] OTHER -> Zero

\* C3: the total weight is the sum over the items of: qty for kg, qty/1000 for g,
\* qty x density for L, qty x density / 1000 for ml, and 0 for a volume item
\* without a (non-zero) density and for any other unit.
C3_TotalWeightIsSum ==
    fn = "batch_total_weight_kg"
        => ret[1] = RSum([i \in Indices(arg.items) |-> LineWeight(arg.items[i], densities)],
                         Len(arg.items))

\* Water 500 ml (density 1.0) and Oil 100 ml (no density) weigh 0.5 kg
C3_Witness ==
    /\ fn = "batch_total_weight_kg"
    /\ arg.items = <<Item("Water", Int2Rat(500), "ml"), Item("Oil", Int2Rat(100), "ml")>>
    /\ "Oil" \notin DOMAIN densities
    /\ ret[1] = Rat(1, 2)

\* C4: unknown_count is the number of L/ml items whose ingredient has no recorded
\* non-zero density; a volume item with a positive density is never counted,
\* whatever its quantity.
C4_UnknownCountsMissingDensity ==
    fn = "batch_total_weight_kg"
        => ret[2] = Cardinality({i \in Indices(arg.items) :
                                    /\ arg.items[i].unit \in {"L", "ml"}
                                    /\ ~HasDensity(arg.items[i].name, densities)})

\* C5: batch_cost_per_portion is None whenever the yield of the batch is 0, and
\* total cost / portions only when the yield is positive.
C5_ZeroYieldIsUndefined ==
    fn = "batch_cost_per_portion"
        => LET y == batch_portions_yield(arg, densities)
           IN  /\ y >= 0
               /\ (y = 0 => ret = NoneVal)
               /\ (y > 0 => /\ ret.kind = "num"
                            /\ RMul(ret.val, Int2Rat(y)) = batch_total_cost(arg, ingredients).val)

\* a batch that costs something and yields no portion
C5_Witness ==
    /\ fn = "batch_cost_per_portion"
    /\ batch_portions_yield(arg, densities) = 0
    /\ RLt(Zero, batch_total_cost(arg, ingredients).val)
    /\ arg.portion_weight_g.kind = "num"
    /\ RLt(Zero, arg.portion_weight_g.val)
    /\ ret = NoneVal

PositivePw(batch) ==
    batch.portion_weight_g.kind = "num" /\ RLt(Zero, batch.portion_weight_g.val)

\* k = floor(w * 1000 / pw), for pw > 0
IsFloorOf(k, w, pw) ==
    /\ RLe(RMul(Int2Rat(k), pw), RMul(w, Int2Rat(1000)))
    /\ RLt(RMul(w, Int2Rat(1000)), RMul(Int2Rat(k + 1), pw))

\* C6 as stated: the yield is floor(total_weight_kg * 1000 / portion_weight_g)
\* when portion_weight_g > 0, 0 when it is missing, zero or negative, and never
\* negative.
C6_YieldIsFloor ==
    fn = "batch_portions_yield"
        => /\ PositivePw(arg)
                => IsFloorOf(ret, batch_total_weight_kg(arg, densities)[1],
                             arg.portion_weight_g.val)
           /\ ~PositivePw(arg) => ret = 0
           /\ ret >= 0

\* C6 amended: the yield is max(floor(total_weight_kg * 1000 / portion_weight_g), 0)
\* when portion_weight_g > 0 (so 0 for a negative total weight), and 0 when
\* portion_weight_g is missing, zero or negative.
C6_YieldIsClampedFloor ==
    fn = "batch_portions_yield"
        => LET w == batch_total_weight_kg(arg, densities)[1]
           IN  /\ (PositivePw(arg) /\ RLe(Zero, w))
                    => IsFloorOf(ret, w, arg.portion_weight_g.val)
               /\ (PositivePw(arg) /\ RLt(w, Zero)) => ret = 0
               /\ ~PositivePw(arg) => ret = 0
               /\ ret >= 0

\* a batch of negative total weight with a positive portion weight
C6_Witness ==
    /\ fn = "batch_portions_yield"
    /\ PositivePw(arg)
    /\ RLt(batch_total_weight_kg(arg, densities)[1], Zero)
    /\ ret = 0

WithPw(batch, pw) == [batch EXCEPT !.portion_weight_g = pw]

NumericPws == {pw \in PortionWeightInputs : pw.kind = "num"}

\* C7 as stated: for the same items and every pair of portion weights p1 < p2,
\* p1 <= 0 included, the yield with p2 is not greater than the yield with p1.
C7_YieldMonotoneAllPairs ==
    (fn = "batch_portions_yield" /\ arg.portion_weight_g.kind = "num")
        => \A p2 \in NumericPws :
              RLt(arg.portion_weight_g.val, p2.val)
                  => batch_portions_yield(WithPw(arg, p2), densities) <= ret

\* C7 amended: the same for every pair of positive portion weights 0 < p1 < p2.
C7_YieldMonotonePositive ==
    (fn = "batch_portions_yield" /\ PositivePw(arg))
        => \A p2 \in NumericPws :
              RLt(arg.portion_weight_g.val, p2.val)
                  => batch_portions_yield(WithPw(arg, p2), densities) <= ret

\* a larger portion weight that strictly lowers a positive yield
C7_Witness ==
    /\ fn = "batch_portions_yield"
    /\ arg.portion_weight_g = Num(Int2Rat(250))
    /\ ret > 0
    /\ batch_portions_yield(WithPw(arg, Num(Int2Rat(1000))), densities) < ret

\* C10: for a batch with a line item absent from the catalog, the displayed total
\* cost is 0 and batch_cost_per_portion is None, not a sum over the other items.
C10_MissingIngredientUncostable ==
    (fn = "BatchSummary" /\ HasMissing(arg, ingredients))
        => /\ ret.total_cost = Num(Zero)
           /\ ret.cpp = NoneVal

-----------------------------------------------------------------------------
(* Claims about the session (checked under Spec).                          *)

\* C8: deleting a batch removes every batch-use of its id from every recipe, so
\* that no recipe ever holds a batch-use whose batch id is not in the batches
\* table, in the session and in the persisted store.
C8_NoOrphanBatchUse ==
    /\ \A rn \in DOMAIN recipes : \A i \in 1..Len(recipes[rn].batch_uses) :
          recipes[rn].batch_uses[i].batch_id \in DOMAIN batches
    /\ \A rn \in DOMAIN disk.recipes : \A i \in 1..Len(disk.recipes[rn].batch_uses) :
          disk.recipes[rn].batch_uses[i].batch_id \in DOMAIN disk.batches

\* a batch that a recipe used was deleted, and the recipe is still there
C8_Witness ==
    /\ op[1] = "delete_batch"
    /\ op[2] >= 1
    /\ recipes # <<>>

\* C9: the id given to a newly created batch is not the id of a batch in the
\* batches table, across creations, deletions and session restarts.
C9_FreshBatchId ==
    [][batch_id_counter' = batch_id_counter + 1
          => BatchId(batch_id_counter) \notin DOMAIN batches]_vars

\* C18: after every completed UI action each persisted table (ingredients,
\* densities, batches, recipes) equals the in-memory table, and a session
\* restart loads exactly the tables the previous session ended with.
C18_PersistOnMutate ==
    /\ [](/\ disk.ingredients = ingredients
          /\ disk.densities = densities
          /\ disk.batches = batches
          /\ disk.recipes = recipes)
    /\ [][SessionRestart => UNCHANGED <<ingredients, densities, batches, recipes>>]_vars

\* a batch with an item, a recipe using it, an added ingredient and an edited
\* density are in memory and in the files
C18_Witness ==
    /\ batches # <<>>
    /\ \E b \in DOMAIN batches : batches[b].items # <<>>
    /\ \E r \in DOMAIN recipes : recipes[r].batch_uses # <<>>
    /\ ingredients # default_ing
    /\ densities # default_dens
    /\ disk = [ingredients |-> ingredients, densities |-> densities,
               batches |-> batches, recipes |-> recipes]

\* every item of the list names an ingredient of the catalog ings
InCatalog(items, ings) == \A i \in Indices(items) : items[i].name \in DOMAIN ings

\* C19: in every state reachable through the UI, every line item of every
\* stored batch, of the new-batch buffer and of every recipe names an ingredient
\* of the catalog, in memory and in the files, also after "Reset all data" and
\* after a session restart.
C19_ItemsNameCatalogIngredients ==
    /\ \A b \in DOMAIN batches : InCatalog(batches[b].items, ingredients)
    /\ InCatalog(new_batch_buffer.items, ingredients)
    /\ \A r \in DOMAIN recipes : InCatalog(recipes[r].items, ingredients)
    /\ \A b \in DOMAIN disk.batches : InCatalog(disk.batches[b].items, disk.ingredients)
    /\ \A r \in DOMAIN disk.recipes : InCatalog(disk.recipes[r].items, disk.ingredients)

\* "Reset all data" with an item of the added ingredient in a batch and in a recipe
C19_Witness ==
    /\ op[1] = "reset"
    /\ \E b \in DOMAIN batches : batches[b].items # <<>>
    /\ \E r \in DOMAIN recipes : recipes[r].items # <<>>
    /\ ingredients # default_ing

-----------------------------------------------------------------------------
(* RecipeSpec: recipe_cost_per_pizza and toppings_cost_per_portion applied  *)
(* to a recipes table and a batches table drawn from the sets below.        *)

RecipeItemInputs ==
    { Item("Flour", Int2Rat(1), "kg"),
      Item("Water", Int2Rat(500), "g"),
      Item("Water", Int2Rat(500), "ml"),
      Item("Oil", Int2Rat(100), "ml"),
      Item("Salt", Int2Rat(1), "kg") }

\* recipe["portions"]: at least 1 from the create form; 0 and below only from a
\* recipes.json written by other means
RecipePortionInputs == {-1, 0, 1, 2}

\* b1 yields portions, b2 has no portion weight and so no cost per portion
RecipeBatches ==
    (BatchId(1) :> [name |-> "dough", category |-> "",
                    portion_weight_g |-> Num(Int2Rat(250)),
                    items |-> <<Item("Flour", Int2Rat(1), "kg"),
                                Item("Water", Int2Rat(500), "ml")>>])
    @@ (BatchId(2) :> [name |-> "sauce", category |-> "",
                       portion_weight_g |-> NoneVal,
                       items |-> <<Item("Flour", Int2Rat(1), "kg")>>])

\* batch-uses of b1, of b2, and of an id that is not in the batches table
BatchUseInputs ==
    { [batch_id |-> BatchId(1), portions |-> Int2Rat(1)],
      [batch_id |-> BatchId(1), portions |-> Rat(5, 2)],
      [batch_id |-> BatchId(2), portions |-> Int2Rat(1)],
      [batch_id |-> NoneId, portions |-> Int2Rat(2)] }

RecipeInputs ==
    { [portions |-> p, batch_uses |-> us, items |-> its] :
        p \in RecipePortionInputs,
        us \in SeqsUpTo(BatchUseInputs, MaxUses),
        its \in SeqsUpTo(RecipeItemInputs, MaxItems) }

RecipeInit ==
    /\ ingredients \in CatalogInputs
    /\ densities \in DensityInputs
    /\ batches = RecipeBatches
    /\ recipes \in {("Margherita" :> r) : r \in RecipeInputs}
    /\ arg = "Margherita"
    /\ fn = "none"
    /\ ret = NoneVal
    /\ batch_id_counter = 3
    /\ new_batch_buffer = DefaultBuffer
    /\ disk = <<>>
    /\ page = "Food Cost (Home)"
    /\ batch_filter = ""
    /\ op = "none"
    /\ unlocked = TRUE
    /\ VALID_KEYS = {}

Call_toppings_cost_per_portion ==
    /\ fn' = "toppings_cost_per_portion"
    /\ ret' = toppings_cost_per_portion(recipes[arg], ingredients)
    /\ UNCHANGED <<ingredients, densities, arg, uiVars, licVars>>

Call_recipe_cost_per_pizza ==
    /\ fn' = "recipe_cost_per_pizza"
    /\ ret' = recipe_cost_per_pizza(arg, recipes, batches, ingredients, densities)
    /\ UNCHANGED <<ingredients, densities, arg, uiVars, licVars>>

RecipeNext ==
    \/ Call_toppings_cost_per_portion
    \/ Call_recipe_cost_per_pizza

RecipeSpec == RecipeInit /\ [][RecipeNext]_vars

-----------------------------------------------------------------------------
(* Claims about the recipe cost (checked under RecipeSpec).                *)

\* what one batch-use adds to the cost of a pizza, as the claim states it
UseCost(bu, bs, ings, dens) ==
    IF bu.batch_id \notin DOMAIN bs THEN Zero
    ELSE LET cpp == batch_cost_per_portion(bs[bu.batch_id], ings, dens)
         IN  IF cpp = NoneVal THEN Zero ELSE RMul(cpp.val, bu.portions)

\* C11: recipe_cost_per_pizza returns the sum over the batch-uses of (cost per
\* portion of the batch x portions used) plus toppings_cost_per_portion; a use of
\* a batch id that is not in the batches table adds 0, a use of a batch without
\* a cost per portion adds 0, and neither makes the function fail.
C11_RecipeCostIsSum ==
    fn = "recipe_cost_per_pizza"
        => LET r == recipes[arg]
           IN  /\ ret.kind = "num"
               /\ ret.val =
                    RAdd(RSum([i \in Indices(r.batch_uses) |->
                                  UseCost(r.batch_uses[i], batches, ingredients, densities)],
                              Len(r.batch_uses)),
                         toppings_cost_per_portion(r, ingredients).val)

\* 2.5 portions of b1 (2.5 per batch of 6 portions) and Flour 1 kg for 2 pizzas
C11_Witness ==
    /\ fn = "recipe_cost_per_pizza"
    /\ recipes[arg].batch_uses = <<[batch_id |-> BatchId(1), portions |-> Rat(5, 2)]>>
    /\ recipes[arg].items = <<Item("Flour", Int2Rat(1), "kg")>>
    /\ recipes[arg].portions = 2
    /\ ingredients["Flour"].package_price = Int2Rat(2)
    /\ densities["Water"] = Int2Rat(1)
    /\ ret = Num(Rat(49, 24))

\* a use of an id outside the batches table, or of the batch without a portion
\* weight, leaves the toppings as the whole cost
C11_WitnessSkipped ==
    /\ fn = "recipe_cost_per_pizza"
    /\ Len(recipes[arg].batch_uses) = 1
    /\ recipes[arg].batch_uses[1].batch_id \in {NoneId, BatchId(2)}
    /\ recipes[arg].items # <<>>
    /\ ret = toppings_cost_per_portion(recipes[arg], ingredients)
    /\ ret.val # Zero

\* C12: toppings_cost_per_portion is the sum of unit cost x base quantity over
\* the recipe items that name a catalog ingredient (the others are skipped),
\* divided by the recipe's portions, or by 1 when portions is 0 or negative.
C12_ToppingsPerPortion ==
    fn = "toppings_cost_per_portion"
        => LET r == recipes[arg]
               divisor == IF r.portions >= 1 THEN r.portions ELSE 1
               lines == [i \in Indices(r.items) |->
                            IF r.items[i].name \in DOMAIN ingredients
                            THEN LineCost(r.items[i], ingredients) ELSE Zero]
           IN  /\ ret.kind = "num"
               /\ RMul(ret.val, Int2Rat(divisor)) = RSum(lines, Len(r.items))

\* Flour 1 kg at 2/kg and Salt (not in the catalog) in a recipe of 0 portions
C12_Witness ==
    /\ fn = "toppings_cost_per_portion"
    /\ recipes[arg].portions = 0
    /\ recipes[arg].items = <<Item("Flour", Int2Rat(1), "kg"), Item("Salt", Int2Rat(1), "kg")>>
    /\ "Salt" \notin DOMAIN ingredients
    /\ ret = Num(Int2Rat(2))

\* a recipe of 2 portions: half the cost of the items
C12_WitnessDivided ==
    /\ fn = "toppings_cost_per_portion"
    /\ recipes[arg].portions = 2
    /\ recipes[arg].items = <<Item("Flour", Int2Rat(1), "kg")>>
    /\ ingredients["Flour"].package_price = Int2Rat(2)
    /\ ret = Num(Int2Rat(1))

-----------------------------------------------------------------------------
(* PricingSpec: a run of the Home page for a stored recipe and widget values *)

\* home_taxpct: 0.0 to 50.0 in steps of 0.5
TaxPctInputs == {Zero, Rat(1, 2), Int2Rat(9), Int2Rat(35), Int2Rat(50)}

\* home_targetfc: the slider from 20 to 40
TargetPctInputs == {20, 21, 30, 35, 40}

\* home_roundstep
StepInputs == {Rat(1, 10), Rat(1, 2), Int2Rat(1)}

\* home_sellgross
SellGrossInputs == {Zero, Rat(99, 10)}

\* recipes of cost 0, of batch portions only, of toppings only, and of both
PricedRecipes ==
    { [portions |-> 1, batch_uses |-> <<>>, items |-> <<>>],
      [portions |-> 1,
       batch_uses |-> <<[batch_id |-> BatchId(1), portions |-> Int2Rat(1)]>>,
       items |-> <<>>],
      [portions |-> 1, batch_uses |-> <<>>,
       items |-> <<Item("Water", Int2Rat(70), "ml")>>],
      [portions |-> 1, batch_uses |-> <<>>,
       items |-> <<Item("Water", Int2Rat(140), "g")>>],
      [portions |-> 2,
       batch_uses |-> <<[batch_id |-> BatchId(1), portions |-> Rat(5, 2)]>>,
       items |-> <<Item("Flour", Int2Rat(1), "kg")>>] }

PricingInit ==
    /\ ingredients = ("Flour" :> Entry("kg", Int2Rat(1), Int2Rat(2)))
                        @@ ("Water" :> Entry("kg", Int2Rat(1), Int2Rat(1)))
    /\ densities = ("Water" :> Int2Rat(1))
    /\ batches = RecipeBatches
    /\ recipes \in {("Margherita" :> r) : r \in PricedRecipes}
    /\ arg \in [home_recipe : {"Margherita"}, home_taxpct : TaxPctInputs,
                home_targetfc : TargetPctInputs, home_roundstep : StepInputs,
                home_sellgross : SellGrossInputs]
    /\ fn = "none"
    /\ ret = NoneVal
    /\ batch_id_counter = 3
    /\ new_batch_buffer = DefaultBuffer
    /\ disk = <<>>
    /\ page = "Food Cost (Home)"
    /\ batch_filter = ""
    /\ op = "none"
    /\ unlocked = TRUE
    /\ VALID_KEYS = {}

\* the script run of the Home page with a recipe selected
HomePageRuns ==
    /\ page = "Food Cost (Home)"
    /\ recipes # <<>>
    /\ fn' = "HomePricing"
    /\ ret' = HomePricing(recipe_cost_per_pizza(arg.home_recipe, recipes, batches,
                                                ingredients, densities).val,
                          arg.home_taxpct, arg.home_targetfc, arg.home_roundstep,
                          arg.home_sellgross)
    /\ UNCHANGED <<ingredients, densities, arg, uiVars, licVars>>

PricingNext == HomePageRuns

PricingSpec == PricingInit /\ [][PricingNext]_vars

-----------------------------------------------------------------------------
(* Claims about the recommended price (checked under PricingSpec).         *)

\* rec_net x (1 + tax/100): the gross price before rounding
TaxedNet == RMul(ret.rec_net, RAdd(Int2Rat(1), RMul(arg.home_taxpct, Rat(1, 100))))

C13_WitnessExact ==
    /\ fn = "HomePricing"
    /\ ret.cpp = Rat(7, 100)
    /\ arg.home_targetfc = 35
    /\ arg.home_roundstep = Rat(1, 10)
    /\ arg.home_taxpct = Zero
    /\ TaxedNet = Rat(1, 5)
    /\ ret.rec_gross = Rat(1, 5)

-----------------------------------------------------------------------------
(* UnitCostSpec: unit_cost applied to a name and a one-entry catalog        *)

\* package_price, kept small enough for price / 1e-9 to stay a 32-bit integer
PackagePriceInputs == {Zero, Rat(1, 2), Int2Rat(1), Int2Rat(2)}

\* package_qty: negative, zero, below 1e-9, 1e-9, and above
PackageQtyInputs ==
    { Int2Rat(-1), Zero, <<1, 2 * EpsDen>>, Eps, Rat(1, 4), Rat(1, 2), Int2Rat(1),
      Int2Rat(4), Int2Rat(25) }

UnitCostCatalogs ==
    { ("Flour" :> Entry("kg", q, p)) : q \in PackageQtyInputs, p \in PackagePriceInputs }
    \cup { ("Flour" :> Entry("kg", Int2Rat(25), Int2Rat(25))) }

UnitCostNames == {"Flour", "Salt", ""}

UnitCostInit ==
    /\ ingredients \in UnitCostCatalogs
    /\ densities = <<>>
    /\ arg \in UnitCostNames
    /\ fn = "none"
    /\ ret = NoneVal
    /\ IdleSession

Call_unit_cost ==
    /\ fn' = "unit_cost"
    /\ ret' = unit_cost(arg, ingredients)
    /\ UNCHANGED <<ingredients, densities, arg, uiVars, licVars>>

UnitCostNext == Call_unit_cost

UnitCostSpec == UnitCostInit /\ [][UnitCostNext]_vars

-----------------------------------------------------------------------------
(* Claims about unit_cost (checked under UnitCostSpec).                    *)

\* q >= 1e-9, as ceil(q[2] / q[1]) <= 10^9
AtLeastEps(q) == q[1] >= 1 /\ (q[2] + q[1] - 1) \div q[1] <= EpsDen

\* C14 as claimed: unit_cost raises a lookup error exactly when the name is not
\* in the catalog, and otherwise returns a number that is package_price /
\* package_qty for EVERY package_qty > 0, and package_price / 1e-9 for a
\* package_qty of 0 or below.
C14_UnitCostAllPositive ==
    fn = "unit_cost"
        => /\ (ret = Raise("KeyError")) <=> (arg \notin DOMAIN ingredients)
           /\ arg \in DOMAIN ingredients
                => LET q == ingredients[arg].package_qty
                       p == ingredients[arg].package_price
                   IN  /\ ret.kind = "num"
                       /\ q[1] > 0 => RMul(ret.val, q) = p
                       /\ q[1] <= 0 => ret.val = RMul(p, Int2Rat(EpsDen))

\* C14: unit_cost raises a lookup error exactly when the name is not in the
\* catalog, and otherwise returns a number: package_price / package_qty for
\* every package_qty >= 1e-9, and package_price / 1e-9 for every package_qty
\* below 1e-9, zero and negative ones included.
C14_UnitCostFloored ==
    fn = "unit_cost"
        => /\ (ret = Raise("KeyError")) <=> (arg \notin DOMAIN ingredients)
           /\ arg \in DOMAIN ingredients
                => LET q == ingredients[arg].package_qty
                       p == ingredients[arg].package_price
                   IN  /\ ret.kind = "num"
                       /\ AtLeastEps(q) => RMul(ret.val, q) = p
                       /\ ~AtLeastEps(q) => ret.val = RMul(p, Int2Rat(EpsDen))

\* a package of 5e-10 at price 2: 2 / 1e-9, not 2 / 5e-10
C14_Witness ==
    /\ fn = "unit_cost"
    /\ arg = "Flour"
    /\ ingredients["Flour"].package_qty = <<1, 2 * EpsDen>>
    /\ ingredients["Flour"].package_price = Int2Rat(2)
    /\ ret = Num(Int2Rat(2 * EpsDen))

\* the catalog of tests/test_calc.py: 25 / 25 = 1
C14_WitnessTest ==
    /\ fn = "unit_cost"
    /\ arg = "Flour"
    /\ ingredients["Flour"] = Entry("kg", Int2Rat(25), Int2Rat(25))
    /\ ret = Num(Int2Rat(1))

\* a name outside the catalog
C14_WitnessAbsent ==
    /\ fn = "unit_cost"
    /\ arg = "Salt"
    /\ ret = Raise("KeyError")

\* C15: after the session state is reset and the app has initialised again,
\* batch_id_counter is 1 and the density table is the default density table,
\* whatever the counter and the density edits were before.
C15_ResetRestoresDefaults ==
    op[1] = "reset" => (batch_id_counter = 1 /\ densities = default_dens)

-----------------------------------------------------------------------------
(* LicenseSpec: the license gate in front of the pages, for the values of   *)
(* APP_PASS and the typed keys below.                                       *)

\* APP_PASS: unset, separators only, one key, two keys
AppPassInputs == {"", " , ", "foo", "foo, Bar"}

\* what is typed into "License key": blank, a key in three spellings, others
KeyInputs == {"", "  ", "foo", "FOO", " foo ", "bar", "baz"}

\* The first script run of a session: unlocked is False, and True at once in
\* demo mode. The tables are loaded by the first run that passes the gate, from
\* files that no locked session can change.
LicenseInit ==
    /\ ingredients = default_ing
    /\ densities = default_dens
    /\ batches = <<>>
    /\ recipes = <<>>
    /\ batch_id_counter = 1
    /\ new_batch_buffer = DefaultBuffer
    /\ disk = [ingredients |-> default_ing, densities |-> default_dens,
               batches |-> <<>>, recipes |-> <<>>]
    /\ page = "Food Cost (Home)"
    /\ batch_filter = ""
    /\ op = <<"other", 0>>
    /\ arg = ""
    /\ fn = "none"
    /\ ret = FALSE
    /\ VALID_KEYS \in {valid_keys(a) : a \in AppPassInputs}
    /\ unlocked = (VALID_KEYS = {})

\* a direct call of check_key, as tests/test_app.py makes it
Call_check_key(k) ==
    /\ fn' = "check_key"
    /\ arg' = k
    /\ ret' = check_key(k, VALID_KEYS)
    /\ UNCHANGED <<ingredients, densities, uiVars, licVars>>

\* the "Unlock" button of the gate, with `key` in the text input
Unlock(key) ==
    /\ VALID_KEYS # {}
    /\ ~unlocked
    /\ fn' = "Unlock"
    /\ arg' = key
    /\ ret' = check_key(key, VALID_KEYS)
    /\ unlocked' = IF check_key(key, VALID_KEYS) THEN TRUE ELSE unlocked
    /\ UNCHANGED <<ingredients, densities, uiVars, VALID_KEYS>>

\* a page behind the gate: the script gets there only when unlocked
PageBehindGate(p) ==
    /\ unlocked
    /\ Navigate(p)

LicenseNext ==
    \/ \E k \in KeyInputs : Call_check_key(k)
    \/ \E k \in KeyInputs : Unlock(k)
    \/ \E p \in sections : PageBehindGate(p)
    \/ SessionRestart

LicenseSpec == LicenseInit /\ [][LicenseNext]_vars

-----------------------------------------------------------------------------
(* Claims about the license gate (checked under LicenseSpec).              *)

Blank(k) == k \in {"", "  "}

\* C16 as claimed: check_key is False for every blank key; with a key
\* configured, unlocked is False at first and becomes True only by the
\* submission of a key whose upper-cased hash is in VALID_KEYS; once True it
\* stays True for the session.
C16_UnlockOnlyByUpperHash ==
    /\ VALID_KEYS # {} => ~unlocked
    /\ [](fn = "check_key" /\ Blank(arg) => ret = FALSE)
    /\ [][(VALID_KEYS # {} /\ ~unlocked /\ unlocked')
             => (fn' = "Unlock" /\ _hash_key(upper(arg')) \in VALID_KEYS)]_vars
    /\ [][unlocked => (unlocked' \/ SessionRestart)]_vars

\* C16: check_key is False for every blank key; with a key configured,
\* unlocked is False at first and becomes True only by the submission of a key
\* whose stripped and upper-cased hash is in VALID_KEYS; once True it stays
\* True until the session ends.
C16_UnlockOnlyByValidKey ==
    /\ VALID_KEYS # {} => ~unlocked
    /\ [](fn = "check_key" /\ Blank(arg) => ret = FALSE)
    /\ [][(VALID_KEYS # {} /\ ~unlocked /\ unlocked')
             => (fn' = "Unlock" /\ _hash_key(upper(strip(arg'))) \in VALID_KEYS)]_vars
    /\ [][unlocked => (unlocked' \/ SessionRestart)]_vars

\* unlocked by " foo " with APP_PASS "foo", and a page behind the gate shown
C16_Witness ==
    /\ VALID_KEYS = {_hash_key("FOO")}
    /\ unlocked
    /\ fn = "Unlock"
    /\ arg = " foo "
    /\ page = "Settings"

\* a wrong key and a blank key leave the gate closed
C16_WitnessRejected ==
    /\ VALID_KEYS # {}
    /\ ~unlocked
    /\ fn = "Unlock"
    /\ arg \in {"baz", "  "}
    /\ ret = FALSE

-----------------------------------------------------------------------------
(* FrameSpec: each of the seven cost and weight functions called on the     *)
(* stored tables themselves (Python hands over the dicts by reference).     *)

CostFunctions ==
    { "unit_cost", "batch_total_cost", "batch_total_weight_kg", "batch_portions_yield",
      "batch_cost_per_portion", "toppings_cost_per_portion", "recipe_cost_per_pizza" }

\* what function f returns for argument a on the given tables: a is an
\* ingredient name for unit_cost, a batch id for the batch functions, a recipe
\* name for the recipe functions
ResultOn(f, a, ings, dens, bs, rs) ==
    CASE f = "unit_cost" -> unit_cost(a, ings)
      [] f = "batch_total_cost" -> batch_total_cost(bs[a], ings)
      [] f = "batch_total_weight_kg" -> batch_total_weight_kg(bs[a], dens)
      [] f = "batch_portions_yield" -> batch_portions_yield(bs[a], dens)
      [] f = "batch_cost_per_portion" -> batch_cost_per_portion(bs[a], ings, dens)
      [] f = "toppings_cost_per_portion" -> toppings_cost_per_portion(rs[a], ings)
      [] f = "recipe_cost_per_pizza" -> recipe_cost_per_pizza(a, rs, bs, ings, dens)

\* on the session tables as they are
Result(f, a) == ResultOn(f, a, ingredients, densities, batches, recipes)

\* the arguments function f is called with
Arguments(f) ==
    IF f = "unit_cost" THEN {"Flour", "Salt"}
    ELSE IF f \in {"toppings_cost_per_portion", "recipe_cost_per_pizza"} THEN DOMAIN recipes
    ELSE DOMAIN batches

FrameInit ==
    /\ ingredients \in CatalogInputs
    /\ densities \in DensityInputs
    /\ batches = RecipeBatches
    /\ recipes \in {("Margherita" :> r) : r \in PricedRecipes}
    /\ arg = ""
    /\ fn = "none"
    /\ ret = NoneVal
    /\ batch_id_counter = 3
    /\ new_batch_buffer = DefaultBuffer
    /\ disk = <<>>
    /\ page = "Food Cost (Home)"
    /\ batch_filter = ""
    /\ op = "none"
    /\ unlocked = TRUE
    /\ VALID_KEYS = {}

\* a call that consumes the item lists it walks through
Call_consuming(f, a) ==
    /\ fn' = f
    /\ arg' = a
    /\ ret' = Result(f, a)
    /\ batches' = [b \in DOMAIN batches |-> [batches[b] EXCEPT !.items = <<>>]]
    /\ recipes' = [r \in DOMAIN recipes |-> [recipes[r] EXCEPT !.items = <<>>]]
    /\ UNCHANGED <<ingredients, densities, batch_id_counter, new_batch_buffer, disk,
                   page, batch_filter, op, licVars>>

\* a call of f on a: none of the functions assigns to a table or to an entry
Call(f, a) ==
    /\ fn' = f
    /\ arg' = a
    /\ ret' = Result(f, a)
    /\ UNCHANGED <<ingredients, densities, uiVars, licVars>>

FrameNext == \E f \in CostFunctions : \E a \in Arguments(f) : Call(f, a)

FrameSpec == FrameInit /\ [][FrameNext]_vars

-----------------------------------------------------------------------------
(* Claims about the frame of the functions (checked under FrameSpec).      *)

====
